---- MODULE Spec2Model ----
(***************************************************************************)
(* ssr-diag: the run of src/src/cli.ts (runDiag) as a state machine.       *)
(* Text is modelled at character level: a string is a sequence of          *)
(* one-character strings, so that split, trim, the normalisation regexes,  *)
(* the 120 character truncation and the relevance regex are computed as    *)
(* the code computes them.                                                 *)
(***************************************************************************)
EXTENDS Integers, Sequences, FiniteSets, TLC

(***************************************************************************)
(* Bounds of the model.                                                    *)
(***************************************************************************)
\* a document has at most MaxLines lines (MaxLines - 1 line breaks)
MaxLines == 3
\* a document with a line longer than MAX has at most MaxLongLines lines
MaxLongLines == 2

(***************************************************************************)
(* Characters and string helpers (JavaScript String methods).              *)
(***************************************************************************)
NL == "\n"
\* U+2026, the one-character ellipsis appended by the truncation
Ellipsis == "ellipsis"
\* the characters String.prototype.trim and the regex class \s remove
WS == {" ", NL, "\t"}

Min(a, b) == IF a < b THEN a ELSE b
Max(a, b) == IF a > b THEN a ELSE b

Repeat(c, n) == [i \in 1..n |-> c]

\* pat occurs in s at (1-based) position i
MatchAt(s, pat, i) ==
    /\ i >= 1
    /\ i + Len(pat) - 1 <= Len(s)
    /\ \A k \in 1..Len(pat) : s[i + k - 1] = pat[k]

\* first position >= from where pat occurs in s, 0 when there is none
IndexOf(s, pat, from) ==
    LET hits == {i \in from..Len(s) : MatchAt(s, pat, i)}
    IN  IF hits = {} THEN 0 ELSE CHOOSE i \in hits : \A j \in hits : i <= j

Contains(s, pat) == IndexOf(s, pat, 1) # 0

\* Array.prototype.slice(a, b) with 0 <= a: the elements at 0-based a .. b-1
Slice(arr, a, b) ==
    LET hi == Min(b, Len(arr))
    IN  IF a + 1 > hi THEN <<>> ELSE SubSeq(arr, a + 1, hi)

\* String.prototype.split('\n')
RECURSIVE Split(_)
Split(s) ==
    LET i == IndexOf(s, <<NL>>, 1)
    IN  IF i = 0 THEN <<s>>
        ELSE <<Slice(s, 0, i - 1)>> \o Split(Slice(s, i, Len(s)))

\* lines joined with '\n'
RECURSIVE Join(_)
Join(ls) ==
    IF ls = <<>> THEN <<>>
    ELSE IF Len(ls) = 1 THEN ls[1]
    ELSE ls[1] \o <<NL>> \o Join(Tail(ls))

\* Array.prototype.filter(Boolean) on an array of strings: drops ''
FilterBoolean(ls) == SelectSeq(ls, LAMBDA l : l # <<>>)

\* String.prototype.trim
Trim(s) ==
    LET keep == {i \in 1..Len(s) : s[i] \notin WS}
    IN  IF keep = {} THEN <<>>
        ELSE LET lo == CHOOSE i \in keep : \A j \in keep : i <= j
                 hi == CHOOSE i \in keep : \A j \in keep : i >= j
             IN  SubSeq(s, lo, hi)

(***************************************************************************)
(* normalize (cli.ts 94-98).                                               *)
(***************************************************************************)
Doctype == <<"<", "!", "D", "O", "C", "T", "Y", "P", "E", " ", "h", "t", "m", "l", ">">>
HtmlTag == <<"<", "h", "t", "m", "l">>
MetaOpen == <<"<", "m", "e", "t", "a", " ", "c", "h", "a", "r", "s", "e", "t", "=", "\"">>

\* .replace(/^<!DOCTYPE html>.*?<html/, '<html'): anchored at the start, the
\* lazy .*? stops at the first '<html' and '.' does not match a line break
StripDoctype(s) ==
    IF ~MatchAt(s, Doctype, 1) THEN s
    ELSE LET from == Len(Doctype) + 1
             k == IndexOf(s, HtmlTag, from)
         IN  IF k = 0 \/ \E i \in from..(k - 1) : s[i] = NL THEN s
             ELSE HtmlTag \o Slice(s, k + Len(HtmlTag) - 1, Len(s))

\* the end (last position) of a match of /<meta charset="([^"]+)"\s*\/?>/
\* starting at i, and the position of the closing quote; 0 when no match
MetaMatch(s, i) ==
    IF ~MatchAt(s, MetaOpen, i) THEN [end |-> 0, quote |-> 0]
    ELSE LET v == i + Len(MetaOpen)
             q == IndexOf(s, <<"\"">>, v)
         IN  IF q = 0 \/ q = v THEN [end |-> 0, quote |-> 0]
             ELSE LET nonws == {j \in (q + 1)..Len(s) : s[j] \notin WS}
                      a == IF nonws = {} THEN 0
                           ELSE CHOOSE j \in nonws : \A j2 \in nonws : j <= j2
                  IN  IF a = 0 THEN [end |-> 0, quote |-> 0]
                      ELSE IF s[a] = ">" THEN [end |-> a, quote |-> q]
                      ELSE IF s[a] = "/" /\ a < Len(s) /\ s[a + 1] = ">"
                           THEN [end |-> a + 1, quote |-> q]
                      ELSE [end |-> 0, quote |-> 0]

\* .replace(/<meta charset="([^"]+)"\s*\/?>/g, '<meta charset="$1">')
RECURSIVE UnifyMeta(_)
UnifyMeta(s) ==
    LET starts == {i \in 1..Len(s) : MetaMatch(s, i).end # 0}
    IN  IF starts = {} THEN s
        ELSE LET i == CHOOSE x \in starts : \A y \in starts : x <= y
                 m == MetaMatch(s, i)
             IN  Slice(s, 0, m.quote) \o <<">">> \o UnifyMeta(Slice(s, m.end, Len(s)))

normalize(html) == Trim(UnifyMeta(StripDoctype(html)))

(***************************************************************************)
(* diffLines of the 'diff' package (cli.ts 6, 101), by its contract: the   *)
(* inputs are cut into line tokens, each line keeping its line break, and  *)
(* the result is a minimal edit script (a longest common subsequence of    *)
(* the tokens is kept) in which adjacent tokens of one kind form one chunk *)
(* and, between two kept tokens, the removed chunk precedes the added one. *)
(* When several minimal scripts exist the package returns one of them:     *)
(* DiffLines is the set of all of them.                                    *)
(***************************************************************************)
\* lineDiff.tokenize: 'a\nb\n' -> 'a\n', 'b\n'; a final empty token is dropped
Tokenize(s) ==
    LET ps == Split(s)
        n == Len(ps)
        full == [k \in 1..(n - 1) |-> ps[k] \o <<NL>>]
    IN  IF ps[n] = <<>> THEN full ELSE Append(full, ps[n])

\* the k-th smallest element of a finite set of numbers
RECURSIVE Kth(_, _)
Kth(S, k) ==
    LET m == CHOOSE x \in S : \A y \in S : x <= y
    IN  IF k = 1 THEN m ELSE Kth(S \ {m}, k - 1)

\* I and J pick a common subsequence of the token lists A and B
IsCommon(A, B, I, J) ==
    /\ Cardinality(I) = Cardinality(J)
    /\ \A k \in 1..Cardinality(I) : A[Kth(I, k)] = B[Kth(J, k)]

Alignments(A, B) ==
    LET all == {p \in (SUBSET (1..Len(A))) \X (SUBSET (1..Len(B))) :
                    IsCommon(A, B, p[1], p[2])}
    IN  {p \in all : \A q \in all : Cardinality(q[1]) <= Cardinality(p[1])}

Chunk(kind, value) ==
    [added |-> kind = "added", removed |-> kind = "removed", value |-> value]

ChunkKind(p) == IF p.added THEN "added" ELSE IF p.removed THEN "removed" ELSE "unchanged"

\* append a token of some kind to the script, merging it into the last chunk
\* when that chunk is of the same kind
Emit(script, kind, tok) ==
    IF script # <<>> /\ ChunkKind(script[Len(script)]) = kind
    THEN [script EXCEPT ![Len(script)].value = @ \o tok]
    ELSE Append(script, Chunk(kind, tok))

\* the edit script of one alignment: walk both token lists, the removed
\* tokens of a gap first, then the added ones
RECURSIVE Script(_, _, _, _, _, _, _)
Script(A, B, I, J, i, j, acc) ==
    IF i > Len(A) /\ j > Len(B) THEN acc
    ELSE IF i <= Len(A) /\ i \notin I
         THEN Script(A, B, I, J, i + 1, j, Emit(acc, "removed", A[i]))
    ELSE IF j <= Len(B) /\ j \notin J
         THEN Script(A, B, I, J, i, j + 1, Emit(acc, "added", B[j]))
    ELSE Script(A, B, I, J, i + 1, j + 1, Emit(acc, "unchanged", A[i]))

DiffLines(oldStr, newStr) ==
    LET A == Tokenize(oldStr)
        B == Tokenize(newStr)
    IN  {Script(A, B, p[1], p[2], 1, 1, <<>>) : p \in Alignments(A, B)}

(***************************************************************************)
(* The grouping scan (cli.ts 104-150).                                     *)
(***************************************************************************)
\* const MAX = 120
MAX == 120

\* mutant of Snip: the cut is made one character early
SnipShort(full) ==
    IF Len(full) > MAX THEN Slice(full, 0, MAX - 1) \o <<Ellipsis>> ELSE full

\* full.length > MAX ? full.slice(0, MAX) + ellipsis : full
Snip(full) == IF Len(full) > MAX THEN Slice(full, 0, MAX) \o <<Ellipsis>> ELSE full

LineInfo(num, full) == [line |-> num, snippet |-> Snip(full), length |-> Len(full)]

\* p.value.split('\n').filter(Boolean)
ChunkLines(p) == FilterBoolean(Split(p.value))

\* how many lines of context the scan takes before and after a record
ContextWidth == 1

\* serverLinesArr.slice(Math.max(0, cursor - 1), cursor) mapped to LineInfo
ContextBefore(arr, cur) ==
    LET before == Slice(arr, Max(0, cur - ContextWidth), cur)
    IN  [i \in 1..Len(before) |-> LineInfo(cur - Len(before) + (i - 1) + 1, before[i])]

\* mutant of ContextAfter: the lines numbered one too high
ContextAfterOffByOne(arr, cur) ==
    LET after == Slice(arr, cur, cur + ContextWidth)
    IN  [i \in 1..Len(after) |-> LineInfo(cur + (i - 1) + 2, after[i])]

\* serverLinesArr.slice(cursor, cursor + 1) mapped to LineInfo
ContextAfter(arr, cur) ==
    LET after == Slice(arr, cur, cur + ContextWidth)
    IN  [i \in 1..Len(after) |-> LineInfo(cur + (i - 1) + 1, after[i])]

\* mutant of Numbered: the lines numbered from cursor, 0-based
NumberedFromCursor(lines, cur) == [i \in 1..Len(lines) |-> LineInfo(cur + (i - 1), lines[i])]

\* lines.forEach((full, i) => ... num = cursor + i + 1 ...)
Numbered(lines, cur) == [i \in 1..Len(lines) |-> LineInfo(cur + (i - 1) + 1, lines[i])]

\* mutant of CursorAfter: cursor advanced over removed chunks too
CursorAfterRemoved(p, cur) ==
    IF p.added THEN cur ELSE cur + (Len(Split(p.value)) - 1)

\* cursor += p.value.split('\n').length - 1, in the unchanged branch only
CursorAfter(p, cur) ==
    IF p.added \/ p.removed THEN cur ELSE cur + (Len(Split(p.value)) - 1)

NewRecord(arr, cur) ==
    [contextBefore |-> ContextBefore(arr, cur), serverLines |-> <<>>,
     clientLines |-> <<>>, contextAfter |-> <<>>]

\* mutant of GroupStep: an unchanged chunk fills contextAfter but leaves the
\* record open
GroupStepKeepOpen(g, p, arr) ==
    LET lines == ChunkLines(p)
    IN  IF p.added \/ p.removed
        THEN LET opened == IF g.current = 0
                           THEN Append(g.grouped, NewRecord(arr, g.cursor))
                           ELSE g.grouped
                 c == IF g.current = 0 THEN Len(opened) ELSE g.current
                 nums == Numbered(lines, g.cursor)
                 withS == IF p.removed
                          THEN [opened EXCEPT ![c].serverLines = @ \o nums]
                          ELSE opened
                 withC == IF p.added
                          THEN [withS EXCEPT ![c].clientLines = @ \o nums]
                          ELSE withS
             IN  [grouped |-> withC, cursor |-> CursorAfter(p, g.cursor), current |-> c]
        ELSE LET closed == IF g.current # 0
                           THEN [g.grouped EXCEPT
                                    ![g.current].contextAfter = ContextAfter(arr, g.cursor)]
                           ELSE g.grouped
             IN  [grouped |-> closed, cursor |-> CursorAfter(p, g.cursor), current |-> g.current]

\* one call of the forEach callback: g is the state of the scan, a record
\* [grouped, cursor, current] where current is the index in grouped of the
\* open record (0: null); arr is serverLinesArr
GroupStep(g, p, arr) ==
    LET lines == ChunkLines(p)
    IN  IF p.added \/ p.removed
        THEN LET opened == IF g.current = 0
                           THEN Append(g.grouped, NewRecord(arr, g.cursor))
                           ELSE g.grouped
                 c == IF g.current = 0 THEN Len(opened) ELSE g.current
                 nums == Numbered(lines, g.cursor)
                 withS == IF p.removed
                          THEN [opened EXCEPT ![c].serverLines = @ \o nums]
                          ELSE opened
                 withC == IF p.added
                          THEN [withS EXCEPT ![c].clientLines = @ \o nums]
                          ELSE withS
             IN  [grouped |-> withC, cursor |-> CursorAfter(p, g.cursor), current |-> c]
        ELSE LET closed == IF g.current # 0
                           THEN [g.grouped EXCEPT
                                    ![g.current].contextAfter = ContextAfter(arr, g.cursor)]
                           ELSE g.grouped
             IN  [grouped |-> closed, cursor |-> CursorAfter(p, g.cursor), current |-> 0]

(***************************************************************************)
(* The relevance filter (cli.ts 152-157).                                  *)
(***************************************************************************)
DivRoot == <<"<", "d", "i", "v", " ", "i", "d", "=", "\"", "r", "o", "o", "t", "\"">>
H1 == <<"<", "h", "1">>

\* /<div id="root"|<h1/.test(ln.snippet)
RelevantSnippet(snippet) == Contains(snippet, DivRoot) \/ Contains(snippet, H1)

\* mutant of isRelevant: the context lines are searched too
isRelevantWithContext(g) ==
    \E k \in 1..Len(g.contextBefore \o g.serverLines \o g.clientLines \o g.contextAfter) :
        RelevantSnippet((g.contextBefore \o g.serverLines \o g.clientLines
                         \o g.contextAfter)[k].snippet)

isRelevant(g) ==
    \E k \in 1..Len(g.serverLines \o g.clientLines) :
        RelevantSnippet((g.serverLines \o g.clientLines)[k].snippet)

\* mutant of Filter: the relevant records in reverse order
FilterReversed(grouped) ==
    LET kept == SelectSeq(grouped, isRelevant)
    IN  [i \in 1..Len(kept) |-> kept[Len(kept) + 1 - i]]

Filter(grouped) == SelectSeq(grouped, isRelevant)

(***************************************************************************)
(* Inputs: the command lines and the documents a run can meet.             *)
(***************************************************************************)
LineA == <<"a">>
LineH1 == <<"<", "h", "1", ">", "S">>
LineBlank == <<>>
\* a line of 121 characters, one more than MAX, whose <h1 the truncation cuts
LineLong == Repeat("x", 118) \o H1
LineDiv == DivRoot \o <<">">>

Vocabulary == {LineA, LineH1, LineBlank}
LongVocabulary == {LineDiv, LineLong}

\* the documents of 1 .. n lines of the set V, joined by line breaks (a
\* leading blank line is a leading line break, a final one a trailing one)
DocsOf(V, n) == {Join(ls) : ls \in UNION {[1..k -> V] : k \in 1..n}}

\* the documents a run can be served: up to MaxLines short lines, or up to
\* MaxLongLines lines some of which exceed the display width
Docs == DocsOf(Vocabulary, MaxLines) \cup DocsOf(LongVocabulary, MaxLongLines)

\* minimist's result: --help, the positionals argv._[0] and argv._[1], --format
Argvs == [help : BOOLEAN, cmd : {"run", "scan", "none"}, path : BOOLEAN,
          format : {"text", "json"}]

\* what page.goto resolves to: null (written 0), or a response with a status
NoResponse == 0
Responses == {NoResponse, 200, 400, 404}
\* before page.goto has resolved
NotNavigated == -1

(***************************************************************************)
(* The state of one run of runDiag.                                        *)
(***************************************************************************)
VARIABLES
    pc,             \* the statement runDiag is at
    argv,           \* the parsed command line
    server,         \* the static server: "none", "unbound", "listening", "closed"
    browser,        \* the browser: "none", "open", "closed"
    response,       \* the result of page.goto
    serverHtml,     \* response.text()
    serverLinesArr, \* serverHtml.split('\n')
    clientHtml,     \* document.documentElement.outerHTML after the delay
    cleanServer,    \* normalize(serverHtml)
    cleanClient,    \* normalize(clientHtml)
    diffs,          \* diffLines(cleanServer, cleanClient)
    scanned,        \* how many chunks of diffs the forEach has consumed
    scan,           \* [grouped, cursor, current] of the grouping scan
    filtered,       \* grouped.filter(isRelevant)
    rendered,       \* how many records the text renderer has printed
    out,            \* what was written to stdout/stderr, in order
    exitCode,       \* the process exit code, -1 while the process runs
    hydration       \* a call of the hydrateRoot wrapper in the page (index.ts)

vars == <<pc, argv, server, browser, response, serverHtml, serverLinesArr,
          clientHtml, cleanServer, cleanClient, diffs, scanned, scan, filtered,
          rendered, out, exitCode, hydration>>

core == <<serverHtml, serverLinesArr, clientHtml, cleanServer, cleanClient,
          diffs, scanned, scan, filtered, rendered>>

Unset == <<"unset">>

\* the wrapper is installed and not called
NotCalled == [at |-> "idle"]

Init ==
    /\ pc = "parse"
    /\ argv \in Argvs
    /\ server = "none"
    /\ browser = "none"
    /\ response = NotNavigated
    /\ serverHtml = Unset
    /\ serverLinesArr = <<>>
    /\ clientHtml = Unset
    /\ cleanServer = Unset
    /\ cleanClient = Unset
    /\ diffs = <<>>
    /\ scanned = 0
    /\ scan = [grouped |-> <<>>, cursor |-> 0, current |-> 0]
    /\ filtered = <<>>
    /\ rendered = 0
    /\ out = <<>>
    /\ exitCode = -1
    /\ hydration = NotCalled

\* process.exit(code) after writing msgs
Exit(code, msgs) ==
    /\ pc' = "exited"
    /\ exitCode' = code
    /\ out' = out \o msgs
    /\ UNCHANGED hydration

Goto(next) ==
    /\ pc' = next
    /\ UNCHANGED <<exitCode, out, hydration>>

\* mutant of ParseArgs: every usage exit takes code 1
ParseArgsExitOne ==
    /\ pc = "parse"
    /\ IF argv.help \/ argv.cmd # "run" \/ ~argv.path
       THEN Exit(1, <<[kind |-> "usage"]>>)
       ELSE Goto("listen")
    /\ UNCHANGED <<argv, server, browser, response, core>>

\* cli.ts 12-35: usage handling, before anything is acquired
ParseArgs ==
    /\ pc = "parse"
    /\ IF argv.help \/ argv.cmd # "run" \/ ~argv.path
       THEN Exit(IF argv.help THEN 0 ELSE 1, <<[kind |-> "usage"]>>)
       ELSE Goto("listen")
    /\ UNCHANGED <<argv, server, browser, response, core>>

\* cli.ts 43-48: createServer and listen; the callback resolves the promise
Listen ==
    /\ pc = "listen"
    /\ server' \in {"listening", "unbound"}
    /\ Goto("address")
    /\ UNCHANGED <<argv, browser, response, core>>

\* cli.ts 46-48: listen fails (port in use): the server emits 'error', which
\* has no listener, so the process dies of the uncaught error with code 1
ListenError ==
    /\ pc = "listen"
    /\ Exit(1, <<[kind |-> "uncaught"]>>)
    /\ UNCHANGED <<argv, server, browser, response, core>>

\* cli.ts 49-56: server.address() is null when the server is not listening
CheckAddress ==
    /\ pc = "address"
    /\ IF server = "unbound"
       THEN Exit(1, <<[kind |-> "error", what |-> "server"]>>)
       ELSE Goto("launch")
    /\ UNCHANGED <<argv, server, browser, response, core>>

\* cli.ts 58-60: puppeteer.launch
Launch ==
    /\ pc = "launch"
    /\ browser' = "open"
    /\ Goto("newPage")
    /\ UNCHANGED <<argv, server, response, core>>

\* cli.ts 61-69: newPage, page.on, readFile of the wrapper, evaluateOnNewDocument
NewPage ==
    /\ pc = "newPage"
    /\ Goto("readFile")
    /\ UNCHANGED <<argv, server, browser, response, core>>

ReadWrapper ==
    /\ pc = "readFile"
    /\ Goto("inject")
    /\ UNCHANGED <<argv, server, browser, response, core>>

InjectWrapper ==
    /\ pc = "inject"
    /\ Goto("goto")
    /\ UNCHANGED <<argv, server, browser, response, core>>

\* cli.ts 72: page.goto
Navigate ==
    /\ pc = "goto"
    /\ response' \in Responses
    /\ Goto("checkResponse")
    /\ UNCHANGED <<argv, server, browser, core>>

\* mutant of BadResponse: status 400 itself passes
BadResponseAbove(r) == r = NoResponse \/ r > 400

\* !response || response.status() >= 400
BadResponse(r) == r = NoResponse \/ r >= 400

\* cli.ts 73-74
CheckResponse ==
    /\ pc = "checkResponse"
    /\ IF BadResponse(response)
       THEN /\ pc' = "failCloseBrowser"
            /\ out' = Append(out, [kind |-> "error", what |-> "load"])
            /\ UNCHANGED <<exitCode, hydration>>
       ELSE Goto("text")
    /\ UNCHANGED <<argv, server, browser, response, core>>

\* cli.ts 75: await browser.close() on the load failure path
FailCloseBrowser ==
    /\ pc = "failCloseBrowser"
    /\ browser' = "closed"
    /\ Goto("failCloseServer")
    /\ UNCHANGED <<argv, server, response, core>>

\* cli.ts 76-77: server.close(); process.exit(1)
FailCloseServer ==
    /\ pc = "failCloseServer"
    /\ server' = "closed"
    /\ Exit(1, <<>>)
    /\ UNCHANGED <<argv, browser, response, core>>

\* cli.ts 79-80: the response body and its lines
ReadServerHtml ==
    /\ pc = "text"
    /\ \E d \in Docs :
        /\ serverHtml' = d
        /\ serverLinesArr' = Split(d)
    /\ Goto("delay")
    /\ UNCHANGED <<argv, server, browser, response, clientHtml, cleanServer,
                   cleanClient, diffs, scanned, scan, filtered, rendered>>

\* cli.ts 83: the 500 ms grace delay
Delay ==
    /\ pc = "delay"
    /\ Goto("evaluate")
    /\ UNCHANGED <<argv, server, browser, response, core>>

\* mutant of ReadClientHtml: the document read without waiting for the delay
ReadClientHtmlEarly ==
    /\ pc = "delay"
    /\ clientHtml' \in Docs
    /\ Goto("closeBrowser")
    /\ UNCHANGED <<argv, server, browser, response, serverHtml, serverLinesArr,
                   cleanServer, cleanClient, diffs, scanned, scan, filtered, rendered>>

\* cli.ts 86-88: the hydrated document
ReadClientHtml ==
    /\ pc = "evaluate"
    /\ clientHtml' \in Docs
    /\ Goto("closeBrowser")
    /\ UNCHANGED <<argv, server, browser, response, serverHtml, serverLinesArr,
                   cleanServer, cleanClient, diffs, scanned, scan, filtered, rendered>>

\* cli.ts 90
CloseBrowser ==
    /\ pc = "closeBrowser"
    /\ browser' = "closed"
    /\ Goto("closeServer")
    /\ UNCHANGED <<argv, server, response, core>>

\* cli.ts 91
CloseServer ==
    /\ pc = "closeServer"
    /\ server' = "closed"
    /\ Goto("normalize")
    /\ UNCHANGED <<argv, browser, response, core>>

\* mutant of NormalizeAndDiff: the raw documents are diffed
DiffRaw ==
    /\ pc = "normalize"
    /\ cleanServer' = normalize(serverHtml)
    /\ cleanClient' = normalize(clientHtml)
    /\ diffs' \in DiffLines(serverHtml, clientHtml)
    /\ Goto("group")
    /\ UNCHANGED <<argv, server, browser, response, serverHtml, serverLinesArr,
                   clientHtml, scanned, scan, filtered, rendered>>

\* cli.ts 94-101: normalize both documents and diff them
NormalizeAndDiff ==
    /\ pc = "normalize"
    /\ cleanServer' = normalize(serverHtml)
    /\ cleanClient' = normalize(clientHtml)
    /\ diffs' \in DiffLines(normalize(serverHtml), normalize(clientHtml))
    /\ Goto("group")
    /\ UNCHANGED <<argv, server, browser, response, serverHtml, serverLinesArr,
                   clientHtml, scanned, scan, filtered, rendered>>

\* cli.ts 115-150: the forEach callback on the next chunk
GroupChunk ==
    /\ pc = "group"
    /\ scanned < Len(diffs)
    /\ scan' = GroupStep(scan, diffs[scanned + 1], serverLinesArr)
    /\ scanned' = scanned + 1
    /\ Goto("group")
    /\ UNCHANGED <<argv, server, browser, response, serverHtml, serverLinesArr,
                   clientHtml, cleanServer, cleanClient, diffs, filtered, rendered>>

\* cli.ts 157
FilterRelevant ==
    /\ pc = "group"
    /\ scanned = Len(diffs)
    /\ filtered' = Filter(scan.grouped)
    /\ Goto("render")
    /\ UNCHANGED <<argv, server, browser, response, serverHtml, serverLinesArr,
                   clientHtml, cleanServer, cleanClient, diffs, scanned, scan, rendered>>

\* mutant of RenderJson: the exit code taken from the unfiltered list
RenderJsonGrouped ==
    /\ pc = "render"
    /\ argv.format = "json"
    /\ Exit(IF Len(scan.grouped) # 0 THEN 1 ELSE 0,
            <<[kind |-> "json", mismatches |-> filtered]>>)
    /\ UNCHANGED <<argv, server, browser, response, core>>

\* cli.ts 160-163: JSON.stringify({mismatches: filtered}) and the exit code
RenderJson ==
    /\ pc = "render"
    /\ argv.format = "json"
    /\ Exit(IF Len(filtered) # 0 THEN 1 ELSE 0,
            <<[kind |-> "json", mismatches |-> filtered]>>)
    /\ UNCHANGED <<argv, server, browser, response, core>>

\* cli.ts 166-169
RenderTextEmpty ==
    /\ pc = "render"
    /\ argv.format # "json"
    /\ Len(filtered) = 0
    /\ Exit(0, <<[kind |-> "success"]>>)
    /\ UNCHANGED <<argv, server, browser, response, core>>

\* mutant of TextOf: the added lines printed before the removed lines
TextOfAddedFirst(g, idx) ==
    <<[kind |-> "header", number |-> idx]>>
    \o [i \in 1..Len(g.contextBefore) |->
            [kind |-> "context", line |-> g.contextBefore[i].line,
             snippet |-> g.contextBefore[i].snippet]]
    \o [i \in 1..Len(g.clientLines) |->
            [kind |-> "added", line |-> g.clientLines[i].line,
             snippet |-> g.clientLines[i].snippet]]
    \o [i \in 1..Len(g.serverLines) |->
            [kind |-> "removed", line |-> g.serverLines[i].line,
             snippet |-> g.serverLines[i].snippet]]
    \o [i \in 1..Len(g.contextAfter) |->
            [kind |-> "context", line |-> g.contextAfter[i].line,
             snippet |-> g.contextAfter[i].snippet]]

\* the lines console.error prints for one record (cli.ts 172-184)
TextOf(g, idx) ==
    <<[kind |-> "header", number |-> idx]>>
    \o [i \in 1..Len(g.contextBefore) |->
            [kind |-> "context", line |-> g.contextBefore[i].line,
             snippet |-> g.contextBefore[i].snippet]]
    \o [i \in 1..Len(g.serverLines) |->
            [kind |-> "removed", line |-> g.serverLines[i].line,
             snippet |-> g.serverLines[i].snippet]]
    \o [i \in 1..Len(g.clientLines) |->
            [kind |-> "added", line |-> g.clientLines[i].line,
             snippet |-> g.clientLines[i].snippet]]
    \o [i \in 1..Len(g.contextAfter) |->
            [kind |-> "context", line |-> g.contextAfter[i].line,
             snippet |-> g.contextAfter[i].snippet]]

\* mutant of RenderTextRecord: the record printed is taken off the list
RenderTextRecordShift ==
    /\ pc = "render"
    /\ argv.format # "json"
    /\ Len(filtered) # 0
    /\ rendered' = rendered + 1
    /\ pc' = "render"
    /\ out' = out \o TextOf(filtered[1], rendered + 1)
    /\ filtered' = Tail(filtered)
    /\ UNCHANGED <<argv, server, browser, response, serverHtml, serverLinesArr,
                   clientHtml, cleanServer, cleanClient, diffs, scanned, scan,
                   exitCode, hydration>>

\* cli.ts 171-185: one call of the filtered.forEach callback
RenderTextRecord ==
    /\ pc = "render"
    /\ argv.format # "json"
    /\ Len(filtered) # 0
    /\ rendered < Len(filtered)
    /\ rendered' = rendered + 1
    /\ pc' = "render"
    /\ out' = out \o TextOf(filtered[rendered + 1], rendered + 1)
    /\ UNCHANGED <<argv, server, browser, response, serverHtml, serverLinesArr,
                   clientHtml, cleanServer, cleanClient, diffs, scanned, scan,
                   filtered, exitCode, hydration>>

\* cli.ts 187
RenderTextExit ==
    /\ pc = "render"
    /\ argv.format # "json"
    /\ Len(filtered) # 0
    /\ rendered = Len(filtered)
    /\ Exit(1, <<>>)
    /\ UNCHANGED <<argv, server, browser, response, core>>

\* mutant of Awaits: a step of the grouping can reject too
AwaitsAndGroup == {"launch", "newPage", "readFile", "inject", "goto", "text", "evaluate",
                   "closeBrowser", "failCloseBrowser", "group"}

\* the awaits of runDiag whose promise can reject (cli.ts 58-90)
Awaits == {"launch", "newPage", "readFile", "inject", "goto", "text", "evaluate",
           "closeBrowser", "failCloseBrowser"}

\* an awaited call rejects: runDiag's promise rejects
Throw ==
    /\ pc \in Awaits
    /\ Goto("catch")
    /\ UNCHANGED <<argv, server, browser, response, core>>

\* cli.ts 190-193: runDiag().catch
CatchHandler ==
    /\ pc = "catch"
    /\ Exit(1, <<[kind |-> "error", what |-> "unexpected"]>>)
    /\ UNCHANGED <<argv, server, browser, response, core>>

Next ==
    \/ ParseArgs
    \/ Listen
    \/ ListenError
    \/ CheckAddress
    \/ Launch
    \/ NewPage
    \/ ReadWrapper
    \/ InjectWrapper
    \/ Navigate
    \/ CheckResponse
    \/ FailCloseBrowser
    \/ FailCloseServer
    \/ ReadServerHtml
    \/ Delay
    \/ ReadClientHtml
    \/ CloseBrowser
    \/ CloseServer
    \/ NormalizeAndDiff
    \/ GroupChunk
    \/ FilterRelevant
    \/ RenderJson
    \/ RenderTextEmpty
    \/ RenderTextRecord
    \/ RenderTextExit
    \/ Throw
    \/ CatchHandler

Spec == Init /\ [][Next]_vars

(***************************************************************************)
(* Properties.                                                             *)
(***************************************************************************)
\* the run got through acquisition and exited from the reporter
ReporterExited == pc = "exited" /\ cleanServer # Unset

RECURSIVE SeqToSet(_)
SeqToSet(q) == IF q = <<>> THEN {} ELSE {Head(q)} \cup SeqToSet(Tail(q))

OutKinds == {out[i].kind : i \in 1..Len(out)}

\* C1: a run that reaches the reporter exits with 0 when the filtered list is
\* empty and with 1 otherwise, in JSON and in text format alike.
ExitCodeReflectsReport ==
    ReporterExited =>
        /\ exitCode \in {0, 1}
        /\ exitCode = 0 <=> Len(filtered) = 0

ExitCodeReflectsReportWitness ==
    /\ ReporterExited
    /\ argv.format = "json"
    /\ Len(filtered) = 0
    /\ Len(scan.grouped) > 0
    /\ exitCode = 0

\* C2: when both documents normalize to the same text the grouper makes no
\* record, the filtered list is empty and the run exits with 0.
NoDiffEmptyReport ==
    (cleanServer # Unset /\ cleanServer = cleanClient) =>
        /\ scan.grouped = <<>>
        /\ filtered = <<>>
        /\ pc = "exited" => exitCode = 0

NoDiffEmptyReportWitness ==
    /\ ReporterExited
    /\ serverHtml # clientHtml
    /\ cleanServer = cleanClient
    /\ Contains(serverHtml, H1)
    /\ exitCode = 0

\* C3: when the process exits, and whenever a report has been written, the
\* server is no longer listening and the browser is no longer open.
ResourcesReleasedBeforeExit ==
    (pc = "exited" \/ OutKinds \cap {"json", "success", "header"} # {}) =>
        /\ server # "listening"
        /\ browser # "open"

\* C4: every operational failure ends with exit code 1, and exit code 0 is
\* reached only by the help path or by a completed pipeline whose filtered
\* list is empty.
FailuresExitOne ==
    pc = "exited" =>
        /\ exitCode \in {0, 1}
        /\ (\/ server = "unbound"
            \/ response = NoResponse
            \/ response >= 400
            \/ OutKinds \cap {"error", "uncaught"} # {}) => exitCode = 1
        /\ exitCode = 0 =>
            \/ argv.help /\ out = <<[kind |-> "usage"]>>
            \/ /\ ~argv.help
               /\ response \notin {NotNavigated, NoResponse}
               /\ response < 400
               /\ scanned = Len(diffs)
               /\ filtered = Filter(scan.grouped)
               /\ filtered = <<>>
               /\ cleanServer # Unset

FailuresExitOneWitness ==
    /\ pc = "exited"
    /\ response = 400
    /\ browser = "closed"
    /\ exitCode = 1

\* C5: usage is handled before anything is acquired: with --help the run
\* prints the usage and exits 0 whatever the command and path are; without it
\* a command other than 'run' or a missing path prints the usage and exits 1;
\* neither starts the server nor launches the browser.
UsageFirst ==
    (pc # "parse" /\ (argv.help \/ argv.cmd # "run" \/ ~argv.path)) =>
        /\ pc = "exited"
        /\ out = <<[kind |-> "usage"]>>
        /\ exitCode = (IF argv.help THEN 0 ELSE 1)
        /\ server = "none"
        /\ browser = "none"

UsageFirstWitness ==
    /\ pc = "exited"
    /\ argv.help
    /\ argv.cmd = "scan"
    /\ ~argv.path
    /\ exitCode = 0

\* a record has a changed line whose snippet holds one of the two markers
TouchesRoot(g) ==
    \E ln \in SeqToSet(g.serverLines) \cup SeqToSet(g.clientLines) :
        \/ \E i \in 1..Len(ln.snippet) : MatchAt(ln.snippet, DivRoot, i)
        \/ \E i \in 1..Len(ln.snippet) : MatchAt(ln.snippet, H1, i)

\* C6: after filtering, the surviving records are exactly the grouped records
\* with a serverLines or clientLines snippet matching the relevance predicate,
\* in the grouped order; context lines play no part.
FilterCorrect ==
    pc \in {"render", "exited"} /\ cleanServer # Unset =>
        /\ \A k \in 1..Len(filtered) : TouchesRoot(filtered[k])
        /\ \A k \in 1..Len(scan.grouped) :
              TouchesRoot(scan.grouped[k]) => scan.grouped[k] \in SeqToSet(filtered)
        /\ SeqToSet(filtered) \subseteq SeqToSet(scan.grouped)

\* a record whose only marker is in a context line is dropped while another
\* record of the same run survives
FilterCorrectWitness ==
    /\ pc = "render"
    /\ Len(filtered) > 0
    /\ \E k \in 1..Len(scan.grouped) :
          /\ ~TouchesRoot(scan.grouped[k])
          /\ scan.grouped[k] \notin SeqToSet(filtered)
          /\ \E c \in SeqToSet(scan.grouped[k].contextBefore)
                        \cup SeqToSet(scan.grouped[k].contextAfter) :
                Contains(c.snippet, H1)

(***************************************************************************)
(* Where the records lie in the documents, read off the edit script.       *)
(***************************************************************************)
Changed(p) == p.added \/ p.removed

\* the server lines the chunks 1 .. k of the edit script cover
RECURSIVE ServerLinesUpTo(_)
ServerLinesUpTo(k) ==
    IF k = 0 THEN 0
    ELSE ServerLinesUpTo(k - 1)
         + (IF diffs[k].added THEN 0 ELSE Len(Tokenize(diffs[k].value)))

\* the chunks that open a run of changed chunks
RunStarts ==
    {k \in 1..Len(diffs) : Changed(diffs[k]) /\ (k = 1 \/ ~Changed(diffs[k - 1]))}

\* the last chunk of the run of changed chunks that starts at chunk k
RunEnd(k) ==
    CHOOSE e \in k..Len(diffs) :
        /\ \A x \in k..e : Changed(diffs[x])
        /\ e = Len(diffs) \/ ~Changed(diffs[e + 1])

ScanDone == cleanServer # Unset /\ pc \in {"render", "exited"}

\* the two documents have one minimal edit script only, so that the script
\* does not depend on how the diff package breaks ties
UniqueScript ==
    cleanServer # Unset /\ Cardinality(DiffLines(cleanServer, cleanClient)) = 1

\* the four arrays of a record
ContextEntries(g) == SeqToSet(g.contextBefore) \cup SeqToSet(g.contextAfter)

\* e is the LineInfo of the text full (truncation stated on its own)
InfoOf(e, full) ==
    /\ e.length = Len(full)
    /\ Len(full) > 120 =>
          /\ Len(e.snippet) = 121
          /\ \A i \in 1..120 : e.snippet[i] = full[i]
          /\ e.snippet[121] = Ellipsis
    /\ Len(full) <= 120 => e.snippet = full

\* C7: contextBefore and contextAfter have at most 2 entries, and fewer than 2
\* only when fewer than 2 server lines lie before the record's first changed
\* line, respectively after its last changed line. (Stated of the runs whose
\* edit script is the only minimal one.)
ContextBounds ==
    ScanDone /\ UniqueScript /\ Len(scan.grouped) = Cardinality(RunStarts) =>
        \A j \in 1..Len(scan.grouped) :
            LET g == scan.grouped[j]
                st == Kth(RunStarts, j)
                linesBefore == ServerLinesUpTo(st - 1)
                linesAfter == Len(Tokenize(cleanServer)) - ServerLinesUpTo(RunEnd(st))
            IN  /\ Len(g.contextBefore) <= 2
                /\ Len(g.contextAfter) <= 2
                /\ Len(g.contextBefore) < 2 => linesBefore < 2
                /\ (RunEnd(st) < Len(diffs) /\ Len(g.contextAfter) < 2) => linesAfter < 2

\* C8: every LineInfo of every record carries the true length of the line it
\* was made of; a line longer than 120 characters gives its first 120
\* characters followed by the ellipsis, any other line gives itself. (Checked
\* when the scan is complete: the scan only adds entries to the records.)
TruncationInvariant ==
    pc = "render" =>
    \A j \in 1..Len(scan.grouped) :
        LET g == scan.grouped[j]
        IN  /\ \A e \in ContextEntries(g) :
                  \E full \in SeqToSet(serverLinesArr) : InfoOf(e, full)
            /\ \A e \in SeqToSet(g.serverLines) :
                  \E full \in SeqToSet(Split(cleanServer)) : InfoOf(e, full)
            /\ \A e \in SeqToSet(g.clientLines) :
                  \E full \in SeqToSet(Split(cleanClient)) : InfoOf(e, full)

TruncationInvariantWitness ==
    /\ pc = "render"
    /\ \E j \in 1..Len(scan.grouped) :
          /\ \E e \in SeqToSet(scan.grouped[j].contextBefore) : e.length > 120
          /\ \E e \in SeqToSet(scan.grouped[j].serverLines) : e.length > 120
          /\ \E e \in SeqToSet(scan.grouped[j].clientLines) : e.length <= 120

\* C9: no record of the grouper has both serverLines and clientLines empty.
\* (Stated of the runs whose edit script is the only minimal one.)
RecordsNonEmpty ==
    UniqueScript =>
    \A j \in 1..Len(scan.grouped) :
        scan.grouped[j].serverLines # <<>> \/ scan.grouped[j].clientLines # <<>>

\* every serverLines entry is the LineInfo of the line of doc it is numbered by
NumberedBy(doc) ==
    \A j \in 1..Len(scan.grouped) :
        \A e \in SeqToSet(scan.grouped[j].serverLines) :
            /\ e.line \in 1..Len(doc)
            /\ InfoOf(e, doc[e.line])

\* C10: the line of every serverLines entry is the 1-based position, in the
\* server document, of the removed line the entry was made of (the document
\* taken as served or, at the least, as normalized). (Stated of the runs
\* whose edit script is the only minimal one.)
ServerLineNumbersTrue ==
    ScanDone /\ UniqueScript => NumberedBy(serverLinesArr) \/ NumberedBy(Split(cleanServer))

(***************************************************************************)
(* Context and line numbers against the documents.                         *)
(***************************************************************************)
\* the entries es are the LineInfo of the lines first, first + 1, ... of doc
LinesFrom(es, doc, first) ==
    \A i \in 1..Len(es) :
        /\ es[i].line = first + i - 1
        /\ es[i].line \in 1..Len(doc)
        /\ InfoOf(es[i], doc[es[i].line])

\* the contextBefore of every record is made of the lines of doc that end
\* just before the record's first changed line
ContextBeforeOf(doc) ==
    \A j \in 1..Len(scan.grouped) :
        LET g == scan.grouped[j]
            firstChanged == ServerLinesUpTo(Kth(RunStarts, j) - 1) + 1
        IN  LinesFrom(g.contextBefore, doc, firstChanged - Len(g.contextBefore))

\* C11: contextBefore is made of the server lines just before the record's
\* first changed line, in order, numbered contiguously up to the line before
\* the first changed line and never below 1 (the document taken as served or,
\* at the least, as normalized). (Stated of the runs whose edit script is the
\* only minimal one.)
ContextBeforePrecedes ==
    ScanDone /\ UniqueScript /\ Len(scan.grouped) = Cardinality(RunStarts) =>
        ContextBeforeOf(serverLinesArr) \/ ContextBeforeOf(Split(cleanServer))

\* the contextAfter of every record closed by an unchanged chunk is made of
\* the lines of doc that follow the record's last changed server line
ContextAfterOf(doc) ==
    \A j \in 1..Len(scan.grouped) :
        LET g == scan.grouped[j]
            en == RunEnd(Kth(RunStarts, j))
        IN  en < Len(diffs) =>
                /\ LinesFrom(g.contextAfter, doc, ServerLinesUpTo(en) + 1)
                /\ \A e \in SeqToSet(g.contextAfter) : e \notin SeqToSet(g.serverLines)

\* C12: the contextAfter of a record closed by an Unchanged chunk is made of
\* the server lines just after the record's last changed server line, and
\* none of its entries is one of the record's own removed lines. (Stated of
\* the runs whose edit script is the only minimal one.)
ContextAfterFollows ==
    ScanDone /\ UniqueScript /\ Len(scan.grouped) = Cardinality(RunStarts) =>
        ContextAfterOf(serverLinesArr) \/ ContextAfterOf(Split(cleanServer))

(***************************************************************************)
(* Range of the line numbers.                                              *)
(***************************************************************************)
\* the four arrays of a record, one after the other
AllEntries(g) == g.contextBefore \o g.serverLines \o g.clientLines \o g.contextAfter

\* the number of lines of the server document, as served and as normalized
\* (the first is never the smaller)
ServerLineCount == Min(Len(serverLinesArr), Len(Split(cleanServer)))

\* C13 as stated: every LineInfo of every array of every record has a line
\* between 1 and the number of lines of the server document.
AllLinesInServerDocument ==
    ScanDone =>
        \A j \in 1..Len(scan.grouped) :
            \A e \in SeqToSet(AllEntries(scan.grouped[j])) :
                e.line \in 1..Len(serverLinesArr)

\* C13, amended: every LineInfo of contextBefore, serverLines and contextAfter
\* has a line between 1 and the number of lines of the server document; the
\* i-th entry of clientLines has a line that is at least 1 and at most i - 1
\* more than the number of lines of the server document.
ServerSideLinesInServerDocument ==
    ScanDone =>
        \A j \in 1..Len(scan.grouped) :
            LET g == scan.grouped[j]
            IN  /\ \A e \in SeqToSet(g.contextBefore \o g.serverLines \o g.contextAfter) :
                       e.line \in 1..ServerLineCount
                /\ \A i \in 1..Len(g.clientLines) :
                       g.clientLines[i].line \in 1..(ServerLineCount + i - 1)

\* a finished scan with a record that has context before it, removed lines,
\* and an added line numbered beyond the end of the server document
ServerSideLinesInServerDocumentWitness ==
    /\ ScanDone
    /\ \E j \in 1..Len(scan.grouped) :
           LET g == scan.grouped[j]
           IN  /\ g.contextBefore # <<>>
               /\ g.serverLines # <<>>
               /\ \E e \in SeqToSet(g.clientLines) : e.line > Len(serverLinesArr)

(***************************************************************************)
(* normalize on its own (cli.ts 94-98): the inputs are built from the      *)
(* pieces normalize looks at, and normalize is applied to an input and     *)
(* then to its own result.                                                 *)
(***************************************************************************)
MaxPieces == 3

\* <meta charset="u"/> and <meta charset="u" >
MetaSelfClosing == MetaOpen \o <<"u", "\"", "/", ">">>
MetaSpaced == MetaOpen \o <<"u", "\"", " ", ">">>

Pieces == {<<" ">>, <<NL>>, Doctype, HtmlTag \o <<">">>, MetaSelfClosing, MetaSpaced}

\* the strings made of at most n pieces
RECURSIVE Concats(_)
Concats(n) ==
    IF n = 0 THEN {<<>>}
    ELSE Concats(n - 1) \cup {a \o p : a \in Concats(n - 1), p \in Pieces}

NormalizeInputs == Concats(MaxPieces)

InitNormalize ==
    /\ pc = "normalize"
    /\ argv \in {a \in Argvs : ~a.help /\ a.cmd = "run" /\ a.path}
    /\ server = "none"
    /\ browser = "none"
    /\ response = NotNavigated
    /\ serverHtml \in NormalizeInputs
    /\ serverLinesArr = <<>>
    /\ clientHtml = Unset
    /\ cleanServer = Unset
    /\ cleanClient = Unset
    /\ diffs = <<>>
    /\ scanned = 0
    /\ scan = [grouped |-> <<>>, cursor |-> 0, current |-> 0]
    /\ filtered = <<>>
    /\ rendered = 0
    /\ out = <<>>
    /\ exitCode = -1
    /\ hydration = NotCalled

\* cleanServer = normalize(serverHtml)
ApplyNormalize ==
    /\ pc = "normalize"
    /\ cleanServer' = normalize(serverHtml)
    /\ Goto("normalizeAgain")
    /\ UNCHANGED <<argv, server, browser, response, serverHtml, serverLinesArr,
                   clientHtml, cleanClient, diffs, scanned, scan, filtered, rendered>>

\* normalize applied to its own result: the result of the first call is the
\* input (clientHtml) of the second
ApplyNormalizeAgain ==
    /\ pc = "normalizeAgain"
    /\ clientHtml' = cleanServer
    /\ cleanClient' = normalize(cleanServer)
    /\ Goto("normalized")
    /\ UNCHANGED <<argv, server, browser, response, serverHtml, serverLinesArr,
                   cleanServer, diffs, scanned, scan, filtered, rendered>>

NextNormalize == ApplyNormalize \/ ApplyNormalizeAgain

SpecNormalize == InitNormalize /\ [][NextNormalize]_vars

\* C14: normalize is idempotent: normalize(normalize(x)) = normalize(x) for
\* every input x, whitespace before the doctype, repeated doctypes and meta
\* charset tags in self-closing or spaced form included.
NormalizeIdempotent ==
    pc = "normalized" => cleanClient = cleanServer

(***************************************************************************)
(* Text rendering.                                                         *)
(***************************************************************************)
TextMode == argv.format # "json" /\ Len(filtered) > 0

\* the number of lines printed for a record: its header and its four arrays
PrintedSize(g) ==
    1 + Len(g.contextBefore) + Len(g.serverLines) + Len(g.clientLines) + Len(g.contextAfter)

\* the number of lines printed for the first k records of the report
RECURSIVE PrintedUpTo(_)
PrintedUpTo(k) == IF k = 0 THEN 0 ELSE PrintedUpTo(k - 1) + PrintedSize(filtered[k])

\* the line of output o shows the entry e with the prefix of kind
Shows(o, kind, e) == o.kind = kind /\ o.line = e.line /\ o.snippet = e.snippet

\* the output from position base + 1 on is the text of record k: its header,
\* then contextBefore, serverLines, clientLines and contextAfter in this order
PrintedAt(base, k) ==
    LET g == filtered[k]
        b1 == base + 1
        b2 == b1 + Len(g.contextBefore)
        b3 == b2 + Len(g.serverLines)
        b4 == b3 + Len(g.clientLines)
    IN  /\ out[b1].kind = "header" /\ out[b1].number = k
        /\ \A i \in 1..Len(g.contextBefore) : Shows(out[b1 + i], "context", g.contextBefore[i])
        /\ \A i \in 1..Len(g.serverLines) : Shows(out[b2 + i], "removed", g.serverLines[i])
        /\ \A i \in 1..Len(g.clientLines) : Shows(out[b3 + i], "added", g.clientLines[i])
        /\ \A i \in 1..Len(g.contextAfter) : Shows(out[b4 + i], "context", g.contextAfter[i])

\* C15: in text mode with a non-empty filtered list the output is, record by
\* record in list order, a header numbered 1, 2, ... and then the record's
\* contextBefore, serverLines (removed), clientLines (added) and contextAfter
\* lines; the exit code 1 is issued only after the last record is printed.
TextOrder ==
    TextMode =>
        /\ rendered \in 0..Len(filtered)
        /\ Len(out) = PrintedUpTo(rendered)
        /\ \A k \in 1..rendered : PrintedAt(PrintedUpTo(k - 1), k)
        /\ pc = "render" => exitCode = -1
        /\ pc = "exited" => exitCode = 1 /\ rendered = Len(filtered)

\* a finished text report of two records, with lines of all four kinds
TextOrderWitness ==
    /\ TextMode
    /\ pc = "exited"
    /\ Len(filtered) = 2
    /\ \E k \in 1..2 : /\ filtered[k].contextBefore # <<>>
                       /\ filtered[k].serverLines # <<>>
                       /\ filtered[k].clientLines # <<>>
    /\ \E k \in 1..2 : filtered[k].contextAfter # <<>>

(***************************************************************************)
(* Order of the records.                                                   *)
(***************************************************************************)
\* the lines of the chunks of kind (removed or added) in the run of changed
\* chunks k .. e of the edit script, numbering aside
RECURSIVE RunLines(_, _, _)
RunLines(k, e, removed) ==
    IF k > e THEN <<>>
    ELSE (IF diffs[k].removed = removed
          THEN SelectSeq(Split(diffs[k].value), LAMBDA l : l # <<>>)
          ELSE <<>>)
         \o RunLines(k + 1, e, removed)

\* the entries es show the lines ls, one for one and in order
ShowsLines(es, ls) ==
    /\ Len(es) = Len(ls)
    /\ \A i \in 1..Len(es) : InfoOf(es[i], ls[i])

\* s is a subsequence of t: the entries of s, in their order, among those of t
RECURSIVE IsSubseq(_, _)
IsSubseq(s, t) ==
    IF s = <<>> THEN TRUE
    ELSE IF t = <<>> THEN FALSE
    ELSE IF Head(s) = Head(t) /\ IsSubseq(Tail(s), Tail(t)) THEN TRUE
    ELSE IsSubseq(s, Tail(t))

\* C16: the records are in document order: the j-th grouped record is the one
\* opened by the j-th run of changed chunks of the edit script, and the
\* filtered list is a subsequence of the grouped list (same order, nothing
\* twice).
DocumentOrder ==
    ScanDone =>
        /\ Len(scan.grouped) = Cardinality(RunStarts)
        /\ \A j \in 1..Len(scan.grouped) :
               LET k == Kth(RunStarts, j)
               IN  /\ ShowsLines(scan.grouped[j].serverLines, RunLines(k, RunEnd(k), TRUE))
                   /\ ShowsLines(scan.grouped[j].clientLines, RunLines(k, RunEnd(k), FALSE))
        /\ IsSubseq(filtered, scan.grouped)
        /\ Len(filtered) = Cardinality({j \in 1..Len(scan.grouped) : isRelevant(scan.grouped[j])})

\* two runs of changed chunks with different records, both reported
DocumentOrderWitness ==
    /\ ScanDone
    /\ Len(scan.grouped) = 2
    /\ Len(filtered) = 2
    /\ filtered[1] = scan.grouped[1]
    /\ filtered[2] = scan.grouped[2]
    /\ filtered[1] # filtered[2]

(***************************************************************************)
(* The cursor.                                                             *)
(***************************************************************************)
\* the line breaks in the text of the unchanged and removed chunks 1 .. k
RECURSIVE ServerBreaksUpTo(_)
ServerBreaksUpTo(k) ==
    IF k = 0 THEN 0
    ELSE ServerBreaksUpTo(k - 1)
         + (IF diffs[k].added THEN 0 ELSE Len(Split(diffs[k].value)) - 1)

\* C17: after any prefix of the edit script is consumed, cursor is the number
\* of server lines in the Unchanged and Removed chunks of that prefix (counted
\* as lines or, a last line without line break aside, as line breaks).
\* (Stated of the runs whose edit script is the only minimal one.)
CursorCountsServerLines ==
    cleanServer # Unset /\ pc \in {"group", "render"} /\ UniqueScript =>
        scan.cursor \in {ServerLinesUpTo(scanned), ServerBreaksUpTo(scanned)}

(***************************************************************************)
(* One record per run of changed chunks.                                   *)
(***************************************************************************)
\* the runs of changed chunks that begin among the chunks 1 .. k
RunsUpTo(k) == {s \in RunStarts : s <= k}

\* after each chunk: one record per run of changed chunks begun so far, the
\* last of them open exactly when the last chunk consumed is a changed one
OneRecordPerRun ==
    cleanServer # Unset /\ pc \in {"group", "render"} =>
        /\ Len(scan.grouped) = Cardinality(RunsUpTo(scanned))
        /\ IF scanned > 0 /\ Changed(diffs[scanned])
           THEN scan.current = Len(scan.grouped) /\ scan.current > 0
           ELSE scan.current = 0

\* a step of the program changes no record but the one that is open, and of
\* that one it changes contextAfter only to close it
ClosedRecordsKept ==
    /\ Len(scan'.grouped) >= Len(scan.grouped)
    /\ \A j \in 1..Len(scan.grouped) :
           /\ j # scan.current => scan'.grouped[j] = scan.grouped[j]
           /\ j = scan.current /\ scan'.grouped[j].contextAfter # scan.grouped[j].contextAfter
                  => scan'.current = 0
           /\ scan'.grouped[j].contextBefore = scan.grouped[j].contextBefore

\* C18: the scan makes exactly one record per maximal run of consecutive
\* changed chunks: a changed chunk next to a changed chunk goes to the open
\* record, an Unchanged chunk closes it, and a closed record is never
\* modified by a later chunk.
OneRecordPerRunClosedForGood == []OneRecordPerRun /\ [][ClosedRecordsKept]_vars

\* the scan is on its second record, the first one closed with two chunks
\* merged in it
OneRecordPerRunClosedForGoodWitness ==
    /\ pc = "group"
    /\ Len(scan.grouped) = 2
    /\ scan.current = 2
    /\ scan.grouped[1].serverLines # <<>>
    /\ scan.grouped[1].clientLines # <<>>
    /\ scan.grouped[1].contextAfter # <<>>

(***************************************************************************)
(* Numbering of the added lines.                                           *)
(***************************************************************************)
\* C19: in a record, the lines of an Added chunk are numbered from the same
\* base as the lines of the Removed chunk just before it: the i-th entry of
\* clientLines has the line number of the i-th entry of serverLines, and the
\* numbers of clientLines go up one by one.
AddedNumberedAsRemoved ==
    \A j \in 1..Len(scan.grouped) :
        LET g == scan.grouped[j]
        IN  /\ \A i \in 1..Min(Len(g.serverLines), Len(g.clientLines)) :
                   g.clientLines[i].line = g.serverLines[i].line
            /\ \A i \in 1..Len(g.clientLines) :
                   g.clientLines[i].line = g.clientLines[1].line + i - 1

\* a record in which two removed lines are followed by two added lines
AddedNumberedAsRemovedWitness ==
    \E j \in 1..Len(scan.grouped) :
        /\ Len(scan.grouped[j].serverLines) >= 2
        /\ Len(scan.grouped[j].clientLines) >= 2

(***************************************************************************)
(* Blank entries of a split chunk.                                         *)
(***************************************************************************)
\* the positions of the non-empty entries of p.value.split('\n')
NonBlankPositions(p) == {q \in 1..Len(Split(p.value)) : Split(p.value)[q] # <<>>}

\* the line breaks in the text of the unchanged chunks 1 .. k
RECURSIVE UnchangedBreaksUpTo(_)
UnchangedBreaksUpTo(k) ==
    IF k = 0 THEN 0
    ELSE UnchangedBreaksUpTo(k - 1)
         + (IF Changed(diffs[k]) THEN 0 ELSE Len(Split(diffs[k].value)) - 1)

\* C20: no entry of serverLines or clientLines comes from an empty string of
\* the split, the cursor advance of an Unchanged chunk is the number of line
\* breaks of its text, and dropping the blank entries shifts no number: the
\* line of a changed chunk at position q of the split is numbered cursor + q.
\* (Stated of the runs whose edit script is the only minimal one.)
BlankEntriesShiftNothing ==
    cleanServer # Unset /\ pc = "group" /\ UniqueScript =>
        /\ \A j \in 1..Len(scan.grouped) :
               \A e \in SeqToSet(scan.grouped[j].serverLines \o scan.grouped[j].clientLines) :
                   e.length > 0
        /\ scan.cursor = UnchangedBreaksUpTo(scanned)
        /\ scanned > 0 /\ Changed(diffs[scanned]) =>
               LET p == diffs[scanned]
                   g == scan.grouped[scan.current]
                   arr == IF p.removed THEN g.serverLines ELSE g.clientLines
                   n == Cardinality(NonBlankPositions(p))
               IN  \A k \in 1..n :
                       arr[Len(arr) - n + k].line = scan.cursor + Kth(NonBlankPositions(p), k)

(***************************************************************************)
(* Order of the steps of a run.                                            *)
(***************************************************************************)
\* the positions of runDiag from normalization on
CoreSteps == {"normalize", "group", "render"}

\* where each step has got to, read from the state: a snapshot exists only
\* after the navigation succeeded, the second only after the first, the
\* resources are closed after both (the load failure path aside), and the
\* core runs after the teardown, on both snapshots
StepsInOrderState ==
    /\ serverHtml # Unset => response \in Responses /\ ~BadResponse(response)
    /\ clientHtml # Unset => serverHtml # Unset
    /\ pc \in {"text", "delay", "evaluate", "closeBrowser"} =>
           server = "listening" /\ browser = "open"
    /\ pc \in {"text", "delay", "evaluate"} => clientHtml = Unset
    /\ pc = "closeServer" => browser = "closed" /\ server = "listening"
    /\ pc \in {"closeBrowser", "closeServer"} \cup CoreSteps =>
           serverHtml # Unset /\ clientHtml # Unset
    /\ pc \in CoreSteps => browser = "closed" /\ server = "closed"
    /\ pc \in {"text", "delay", "evaluate", "closeBrowser", "closeServer", "normalize"} =>
           cleanServer = Unset /\ cleanClient = Unset /\ diffs = <<>>
    /\ pc \in {"text", "delay", "evaluate", "closeBrowser", "closeServer", "normalize",
               "group"} => filtered = <<>> /\ rendered = 0
    /\ cleanServer # Unset =>
           /\ serverHtml # Unset /\ clientHtml # Unset /\ cleanClient # Unset
           /\ browser = "closed" /\ server = "closed"
    /\ pc = "normalize" => scanned = 0 /\ scan.grouped = <<>>
    /\ pc = "group" => out = <<>> /\ exitCode = -1

\* each step begins where the one before it ends
StepsInOrderStep ==
    /\ serverHtml' # serverHtml => pc = "text" /\ pc' = "delay"
    /\ pc' = "evaluate" => pc = "delay"
    /\ clientHtml' # clientHtml => pc = "evaluate" /\ pc' = "closeBrowser"
    /\ pc' = "closeServer" => pc = "closeBrowser" /\ browser' = "closed"
    /\ pc' = "normalize" => pc = "closeServer" /\ server' = "closed"
    /\ cleanServer' # cleanServer \/ cleanClient' # cleanClient \/ diffs' # diffs =>
           pc = "normalize" /\ pc' = "group"
    /\ scan' # scan => pc = "group" /\ pc' = "group" /\ scanned' = scanned + 1
    /\ filtered' # filtered => pc = "group" /\ scanned = Len(diffs) /\ pc' = "render"
    /\ pc' = "render" /\ pc # "render" => pc = "group" /\ scanned = Len(diffs)
    /\ rendered' # rendered => pc = "render"

\* C21: the steps of a run occur in order, one at a time: serverHtml is read
\* after a successful navigation, the grace delay is over before clientHtml
\* is read, both snapshots exist before the browser and the server are
\* closed, and normalization, diff, grouping, filter and rendering begin
\* after the teardown only, each after the one before it.
StepsInOrder == []StepsInOrderState /\ [][StepsInOrderStep]_vars

\* a run that has come to rendering a report
StepsInOrderWitness ==
    /\ pc = "render"
    /\ browser = "closed" /\ server = "closed"
    /\ serverHtml # Unset /\ clientHtml # Unset
    /\ Len(filtered) > 0

(***************************************************************************)
(* Rendering and the report.                                               *)
(***************************************************************************)
\* a step of the rendering leaves the report as it is: the filtered list,
\* the records it was taken from, and what the JSON output shows of it
RenderingKeepsReport ==
    pc = "render" =>
        /\ filtered' = filtered
        /\ scan' = scan
        /\ \A i \in 1..Len(out') : out'[i].kind = "json" => out'[i].mismatches = filtered

\* C22: rendering is a pure projection: neither the JSON nor the text
\* rendering changes the filtered list or a record or LineInfo of it; the
\* report after rendering is the report before rendering.
RenderingIsProjection == [][RenderingKeepsReport]_vars

\* a text report of two records, rendered to the end
RenderingIsProjectionWitness ==
    /\ pc = "exited"
    /\ argv.format # "json"
    /\ rendered = 2
    /\ Len(filtered) = 2
    /\ exitCode = 1

(***************************************************************************)
(* The load failure path.                                                  *)
(***************************************************************************)
\* page.goto has resolved with no response or with a status of 400 or more
LoadFailed == response \in Responses /\ BadResponse(response)

\* C23: when the navigation returns no response or a status >= 400, the run
\* closes the browser, then the server, then exits with code 1, and on that
\* path no snapshot is read and nothing is normalized, diffed, grouped or
\* reported.
LoadFailureTearsDown ==
    LoadFailed =>
        /\ pc = "failCloseServer" => browser = "closed" /\ server = "listening"
        /\ pc = "exited" => browser = "closed" /\ server = "closed" /\ exitCode = 1
        /\ serverHtml = Unset /\ clientHtml = Unset
        /\ cleanServer = Unset /\ cleanClient = Unset /\ diffs = <<>>
        /\ scanned = 0 /\ scan.grouped = <<>> /\ filtered = <<>> /\ rendered = 0
        /\ OutKinds \cap {"json", "success", "header", "context", "removed", "added"} = {}

(***************************************************************************)
(* Totality of the core.                                                   *)
(***************************************************************************)
\* the run ended in the reporter with code 0 or 1, every chunk consumed, and
\* a report or the success message as its last output
ReportedExit ==
    /\ ReporterExited
    /\ exitCode \in {0, 1}
    /\ scanned = Len(diffs)
    /\ out # <<>>
    /\ out[Len(out)].kind \in {"json", "success", "context", "removed", "added"}

\* once the core has begun the chunks are consumed one by one up to the last
\* and the run is not in the unexpected-exception path
CoreOnItsWay ==
    pc \in CoreSteps \/ cleanServer # Unset =>
        /\ pc \in CoreSteps \cup {"exited"}
        /\ scanned \in 0..Len(diffs)
        /\ pc \in {"render", "exited"} => scanned = Len(diffs)
        /\ "uncaught" \notin OutKinds
        /\ \A i \in 1..Len(out) : out[i].kind # "error"
        /\ pc = "exited" => ReportedExit

\* how far the core is from its exit: the steps still to begin and, within
\* the grouping and the rendering, the chunks and records still to consume
CoreRank == IF pc = "normalize" THEN 3 ELSE IF pc = "group" THEN 2
            ELSE IF pc = "render" THEN 1 ELSE 0

CoreLeft == IF pc = "group" THEN Len(diffs) - scanned
            ELSE IF pc = "render" THEN Len(filtered) - rendered ELSE 0

\* a step of the core brings it nearer to its exit: it begins the next step
\* or consumes one chunk or one record of those left, and never leaves the
\* core for the exception path
CoreStepAdvances ==
    pc \in CoreSteps =>
        /\ pc' \in CoreSteps \cup {"exited"}
        /\ CoreLeft >= 0
        /\ \/ CoreRank' < CoreRank
           \/ CoreRank' = CoreRank /\ CoreLeft' = CoreLeft - 1 /\ CoreLeft' >= 0
        /\ pc = "group" /\ pc' = "group" => scanned' = scanned + 1 /\ diffs' = diffs

\* C24: the core is total: for every pair of documents, empty, equal and
\* wholly different ones included, normalize, group, filter and render
\* complete (every step of the core brings it nearer to its exit), each chunk
\* consumed once, and the run ends in a reporter exit with code 0 or 1, never
\* in the unexpected-exception path.
CoreTotal == []CoreOnItsWay /\ [][CoreStepAdvances]_vars

\* a reporter exit on an empty server document and a client document of
\* three lines
CoreTotalWitness ==
    /\ ReportedExit
    /\ serverHtml = <<>>
    /\ Len(Split(clientHtml)) = 3
    /\ Len(diffs) > 0

(***************************************************************************)
(* Context entries and the response as served.                             *)
(***************************************************************************)
\* C25: every entry of contextBefore and contextAfter of every record shows
\* the line of its number in the server response as served (before
\* normalization): its snippet is the truncation of that line and its length
\* the length of that line, whatever the edit script and the cursor.
ContextFromRawDocument ==
    \A j \in 1..Len(scan.grouped) :
        \A e \in ContextEntries(scan.grouped[j]) :
            /\ e.line \in 1..Len(serverLinesArr)
            /\ InfoOf(e, serverLinesArr[e.line])
            /\ serverLinesArr = Split(serverHtml)

\* a context entry whose line of the response as served is not the line of
\* that number of the normalized document
ContextFromRawDocumentWitness ==
    /\ cleanServer # Unset
    /\ \E j \in 1..Len(scan.grouped) :
           \E e \in ContextEntries(scan.grouped[j]) :
               /\ e.line <= Len(Split(cleanServer))
               /\ Split(cleanServer)[e.line] # serverLinesArr[e.line]

(***************************************************************************)
(* The hydrateRoot wrapper (index.ts 3-18): one call of the wrapper, with  *)
(* an original hydrateRoot that returns a value or throws one.             *)
(***************************************************************************)
MaxArgs == 2

\* the values `this` and the arguments of a call can be
Receivers == {"module", "undefined"}
ArgValues == {"container", "element", "options"}
ArgLists == UNION {[1..n -> ArgValues] : n \in 0..MaxArgs}

\* what the original hydrateRoot does when called: it returns a value, or it
\* throws one; any JavaScript value can be thrown
Returned == {[does |-> "return", value |-> v] : v \in {"root", "undefined"}}
Thrown == {[does |-> "throw", value |-> v] :
              v \in {"ErrorWithComponentStack", "Error", "string", "null", "undefined"}}
Behaviours == Returned \cup Thrown

\* err.componentStack: the property of an error React has annotated,
\* undefined on other objects and on primitives, and a TypeError on null and
\* undefined, which have no properties
HasNoProperties(v) == v \in {"null", "undefined"}
componentStack(v) == IF v = "ErrorWithComponentStack" THEN "component stack" ELSE "undefined"

\* the variables of runDiag, which a call of the wrapper in the page leaves
\* alone
run == <<pc, argv, server, browser, response, serverHtml, serverLinesArr,
         clientHtml, cleanServer, cleanClient, diffs, scanned, scan, filtered,
         rendered, out, exitCode>>

\* index.ts 6: the wrapper is called with a receiver and arguments
InitHydrate ==
    /\ pc = "inject"
    /\ argv \in {a \in Argvs : ~a.help /\ a.cmd = "run" /\ a.path /\ a.format = "text"}
    /\ server = "listening"
    /\ browser = "open"
    /\ response = NotNavigated
    /\ serverHtml = Unset
    /\ serverLinesArr = <<>>
    /\ clientHtml = Unset
    /\ cleanServer = Unset
    /\ cleanClient = Unset
    /\ diffs = <<>>
    /\ scanned = 0
    /\ scan = [grouped |-> <<>>, cursor |-> 0, current |-> 0]
    /\ filtered = <<>>
    /\ rendered = 0
    /\ out = <<>>
    /\ exitCode = -1
    /\ \E t \in Receivers, a \in ArgLists, b \in Behaviours :
           hydration = [at |-> "try", this |-> t, args |-> a, original |-> b,
                        calls |-> <<>>, console |-> <<>>,
                        result |-> [does |-> "none", value |-> "none"]]

\* index.ts 8: return originalHydrate.apply(this, args)
ApplyOriginal ==
    /\ hydration.at = "try"
    /\ hydration' =
           [hydration EXCEPT
               !.calls = Append(@, [this |-> hydration.this, args |-> hydration.args]),
               !.at = IF hydration.original.does = "return" THEN "returned" ELSE "catch",
               !.result = IF hydration.original.does = "return"
                          THEN hydration.original ELSE @]
    /\ UNCHANGED run

\* index.ts 10: console.error('[ssr-diag] Hydration mismatch detected')
LogDetected ==
    /\ hydration.at = "catch"
    /\ hydration' = [hydration EXCEPT !.console = Append(@, "Hydration mismatch detected"),
                                      !.at = "stack"]
    /\ UNCHANGED run

\* index.ts 11: console.error(err.componentStack); reading the property of
\* null or undefined throws a TypeError out of the catch block
LogComponentStack ==
    /\ hydration.at = "stack"
    /\ hydration' =
           IF HasNoProperties(hydration.original.value)
           THEN [hydration EXCEPT !.result = [does |-> "throw", value |-> "TypeError"],
                                  !.at = "thrown"]
           ELSE [hydration EXCEPT
                    !.console = Append(@, componentStack(hydration.original.value)),
                    !.at = "rethrow"]
    /\ UNCHANGED run

\* index.ts 13: throw err
Rethrow ==
    /\ hydration.at = "rethrow"
    /\ hydration' = [hydration EXCEPT !.result = hydration.original, !.at = "thrown"]
    /\ UNCHANGED run

NextHydrate == ApplyOriginal \/ LogDetected \/ LogComponentStack \/ Rethrow

SpecHydrate == InitHydrate /\ [][NextHydrate]_vars

\* the call of the wrapper is over
HydrateDone == hydration.at \in {"returned", "thrown"}

\* C26: the wrapper is transparent: it calls the original hydrateRoot once,
\* with the receiver and the arguments it was given, returns what the
\* original returns, and when the original throws it logs the diagnostic and
\* throws the same value again.
WrapperTransparent ==
    HydrateDone =>
        /\ hydration.calls = <<[this |-> hydration.this, args |-> hydration.args]>>
        /\ hydration.result = hydration.original
        /\ hydration.original.does = "return" => hydration.console = <<>>
        /\ hydration.original.does = "throw" =>
               /\ Len(hydration.console) = 2
               /\ hydration.console[1] = "Hydration mismatch detected"

====
